---- MODULE Spec2Model ----
(***************************************************************************)
(* The centroid summary of go-tdigest (summary.go): two paired slices,     *)
(* means []float64 and counts []uint64, kept sorted by mean.               *)
(*                                                                         *)
(* Slices are modelled as Go has them: a header (backing array, length)    *)
(* over an array in a heap, so that sharing of storage between a summary,  *)
(* its Clone and the slices of GetDataCopy is something a state can show.  *)
(* uint64 and float64 keep their shape at a reduced width: counts are      *)
(* UintBits wide and wrap, a float carries MantBits significant bits and   *)
(* rounds to nearest, ties to even (64 and 53 in the program).             *)
(***************************************************************************)
EXTENDS Integers, Sequences, FiniteSets, TLC

VARIABLES heap, objs, last

vars == <<heap, objs, last>>

\* ------------------------------------------------------------------ bounds

\* The longest summary an Add may produce.
MaxLen == 3

\* The width of a count (uint64 in the program).
UintBits == 4

\* The significand of a float (53 bits in a float64).
MantBits == 3

\* The longest summary in the specification of Clone and GetDataCopy.
AliasLen == 3

\* The longest summary in the specification of setAt.
SetLen == 3

\* The longest summary in the specification of ForEach and Perm.
VisitLen == 3

\* The longest summary in the specification of Reset.
ResetLen == 3

\* The longest summary in the specification of the sums.
SumLen == 8

\* The longest summary in the specification of the searches.
SearchLen == 6

\* ------------------------------------------------------------------ values

RECURSIVE Pow2(_)
Pow2(k) == IF k <= 0 THEN 1 ELSE 2 * Pow2(k - 1)

UintMod == Pow2(UintBits)

\* uint64 arithmetic wraps.
U64(n) == n % UintMod

\* math.NaN(): a float that is no number; every comparison with it is false.
NaN == -1000000

IsNaN(x) == x = NaN

FGt(a, b) == ~IsNaN(a) /\ ~IsNaN(b) /\ a > b

FGe(a, b) == ~IsNaN(a) /\ ~IsNaN(b) /\ a >= b

FLt(a, b) == ~IsNaN(a) /\ ~IsNaN(b) /\ a < b

FLe(a, b) == ~IsNaN(a) /\ ~IsNaN(b) /\ a <= b

\* The unit in the last place of the float nearest to the natural n.
RECURSIVE UlpOf(_, _)
UlpOf(n, u) == IF n < Pow2(MantBits) * u THEN u ELSE UlpOf(n, 2 * u)

\* Rounding of an integer to a float: nearest, ties to even.
RoundNat(n) ==
    LET u == UlpOf(n, 1)
        q == n \div u
        r == n % u
    IN  IF 2 * r < u THEN q * u
        ELSE IF 2 * r > u THEN (q + 1) * u
        ELSE IF q % 2 = 0 THEN q * u
        ELSE (q + 1) * u

RoundF(n) == IF n < 0 THEN 0 - RoundNat(0 - n) ELSE RoundNat(n)

\* float64(x) of a uint64 x.
F64(n) == RoundF(n)

\* cumSum += x and cumSum -= x on floats.
FAdd(a, b) == RoundF(a + b)

FSub(a, b) == RoundF(a - b)

\* The inputs the operations are called with.
MeanVals == {3, 4, 5}

BigCount == Pow2(UintBits - 1)

CountVals == {1, 2, BigCount}

KeyInputs == MeanVals \cup {NaN}

ValueInputs == CountVals \cup {0}

FloorInputs == {3, 4, 5, 6, NaN}

SumInputs == {0 - 1, NaN, 0, 1, 2, BigCount, 2 * UintMod}

\* -------------------------------------------------------------------- heap

\* A slice header: its backing array (0: the zero-size array) and length.
\* Every slice of the program starts at its array's first element.
Slice(a, n) == [arr |-> a, len |-> n]

EmptySlice == Slice(0, 0)

ArrayOf(h, sl) == IF sl.arr = 0 THEN <<>> ELSE h[sl.arr]

Cap(h, sl) == Len(ArrayOf(h, sl))

\* The elements the slice shows, first to last.
Contents(h, sl) == SubSeq(ArrayOf(h, sl), 1, sl.len)

\* sl[i], i counted from 0.
At(h, sl, i) == ArrayOf(h, sl)[i + 1]

\* sl[i] = v
SetAt(h, sl, i, v) == [h EXCEPT ![sl.arr][i + 1] = v]

\* An array of n elements as a sequence.
AsSeq(f, n) == SubSeq(f, 1, n)

Zeros(n) == AsSeq([i \in 1 .. n |-> 0], n)

\* make([]T, n, c): a fresh zeroed array of c elements.
Make(h, n, c) ==
    IF c = 0 THEN [heap |-> h, slice |-> Slice(0, 0)]
    ELSE [heap |-> Append(h, Zeros(c)), slice |-> Slice(Len(h) + 1, n)]

\* The capacity append gives a slice that must grow to hold `needed`.
GrowCap(old, needed) == IF needed > 2 * old THEN needed ELSE 2 * old

\* append(sl, v): in place when the capacity allows, else into a fresh array
\* that holds a copy of the elements.
AppendOne(h, sl, v) ==
    IF sl.len < Cap(h, sl)
    THEN [heap |-> SetAt(h, sl, sl.len, v), slice |-> Slice(sl.arr, sl.len + 1)]
    ELSE LET c == GrowCap(Cap(h, sl), sl.len + 1)
             fresh == AsSeq([i \in 1 .. c |->
                               IF i <= sl.len THEN ArrayOf(h, sl)[i]
                               ELSE IF i = sl.len + 1 THEN v ELSE 0], c)
         IN  [heap |-> Append(h, fresh), slice |-> Slice(Len(h) + 1, sl.len + 1)]

\* copy(sl[to:], sl[from:]) within one slice (memmove: the source is read
\* before anything is written).
CopyWithin(h, sl, to, from) ==
    LET n == IF sl.len - to < sl.len - from THEN sl.len - to ELSE sl.len - from
        old == ArrayOf(h, sl)
    IN  IF n <= 0 THEN h
        ELSE [h EXCEPT ![sl.arr] =
                 AsSeq([i \in 1 .. Len(old) |->
                           IF i - 1 >= to /\ i - 1 < to + n
                           THEN old[(i - 1) - to + from + 1]
                           ELSE old[i]], Len(old))]

\* ----------------------------------------------------------------- summary

\* type summary struct { means []float64; counts []uint64 }
\* live: whether the object exists yet (a clone, the copies of GetDataCopy).
Summary(m, c) == [live |-> TRUE, means |-> m, counts |-> c]

NoSummary == [live |-> FALSE, means |-> EmptySlice, counts |-> EmptySlice]

Means(h, sm) == Contents(h, sm.means)

Counts(h, sm) == Contents(h, sm.counts)

\* newSummary(initialCapacity)
newSummary(h, initialCapacity) ==
    LET m == Make(h, 0, initialCapacity)
        c == Make(m.heap, 0, initialCapacity)
    IN  [heap |-> c.heap, sum |-> Summary(m.slice, c.slice)]

\* Len()
SLen(sm) == sm.means.len

\* The size below which a search is a linear scan.
LinearBelow == 250

\* for i, mean := range s.means { if mean > x { return i } }; return len
RECURSIVE ScanGreater(_, _, _)
ScanGreater(ms, i, x) ==
    IF i >= Len(ms) THEN Len(ms)
    ELSE IF FGt(ms[i + 1], x) THEN i
    ELSE ScanGreater(ms, i + 1, x)

\* for i, mean := range s.means { if mean >= x { return i } }; return len
RECURSIVE ScanGreaterEq(_, _, _)
ScanGreaterEq(ms, i, x) ==
    IF i >= Len(ms) THEN Len(ms)
    ELSE IF FGe(ms[i + 1], x) THEN i
    ELSE ScanGreaterEq(ms, i + 1, x)

\* A binary search that drops the middle when f holds there.
RECURSIVE SortSearchSlip(_, _, _, _, _)
SortSearchSlip(ms, i, j, x, strict) ==
    IF i >= j THEN i
    ELSE LET mid == (i + j) \div 2
             f == IF strict THEN FGt(ms[mid + 1], x) ELSE FGe(ms[mid + 1], x)
         IN  IF f THEN SortSearchSlip(ms, i, mid - 1, x, strict)
             ELSE SortSearchSlip(ms, mid + 1, j, x, strict)

\* sort.Search(n, f) with f(i) = s.means[i] > x (strict) or >= x.
RECURSIVE SortSearch(_, _, _, _, _)
SortSearch(ms, i, j, x, strict) ==
    IF i >= j THEN i
    ELSE LET mid == (i + j) \div 2
             f == IF strict THEN FGt(ms[mid + 1], x) ELSE FGe(ms[mid + 1], x)
         IN  IF f THEN SortSearch(ms, i, mid, x, strict)
             ELSE SortSearch(ms, mid + 1, j, x, strict)

\* for i, mean := range s.means { if mean < x { return i } }; return len
RECURSIVE ScanLess(_, _, _)
ScanLess(ms, i, x) ==
    IF i >= Len(ms) THEN Len(ms)
    ELSE IF FLt(ms[i + 1], x) THEN i
    ELSE ScanLess(ms, i + 1, x)

\* findInsertionIndex with the comparison turned round.
findInsertionIndexLess(h, sm, x) == ScanLess(Means(h, sm), 0, x)

\* findInsertionIndex stopping at the first equal mean (insert to the left).
findInsertionIndexLeft(h, sm, x) == ScanGreaterEq(Means(h, sm), 0, x)

\* Always insert to the right.
findInsertionIndex(h, sm, x) ==
    IF SLen(sm) < LinearBelow THEN ScanGreater(Means(h, sm), 0, x)
    ELSE SortSearch(Means(h, sm), 0, SLen(sm), x, TRUE)

\* findIndex with a strict comparison.
findIndexStrict(h, sm, x) == ScanGreater(Means(h, sm), 0, x)

findIndex(h, sm, x) ==
    IF SLen(sm) < LinearBelow THEN ScanGreaterEq(Means(h, sm), 0, x)
    ELSE SortSearch(Means(h, sm), 0, SLen(sm), x, FALSE)

\* Floor(x)
Floor(h, sm, x) == findIndex(h, sm, x) - 1

\* Add without the check of the count.
AddNoCountCheck(h, sm, key, value) ==
    IF IsNaN(key) THEN [heap |-> h, sum |-> sm, err |-> TRUE]
    ELSE LET idx == findInsertionIndex(h, sm, key)
             a1 == AppendOne(h, sm.means, NaN)
             a2 == AppendOne(a1.heap, sm.counts, 0)
             h3 == CopyWithin(a2.heap, a1.slice, idx + 1, idx)
             h4 == CopyWithin(h3, a2.slice, idx + 1, idx)
             h5 == SetAt(h4, a1.slice, idx, key)
             h6 == SetAt(h5, a2.slice, idx, value)
         IN  [heap |-> h6, sum |-> Summary(a1.slice, a2.slice), err |-> FALSE]

\* Add(key, value): the heap and the summary after the call, and whether it
\* returned an error.
AddResult(h, sm, key, value) ==
    IF IsNaN(key) THEN [heap |-> h, sum |-> sm, err |-> TRUE]
    ELSE IF value = 0 THEN [heap |-> h, sum |-> sm, err |-> TRUE]
    ELSE LET idx == findInsertionIndex(h, sm, key)
             a1 == AppendOne(h, sm.means, NaN)
             a2 == AppendOne(a1.heap, sm.counts, 0)
             h3 == CopyWithin(a2.heap, a1.slice, idx + 1, idx)
             h4 == CopyWithin(h3, a2.slice, idx + 1, idx)
             h5 == SetAt(h4, a1.slice, idx, key)
             h6 == SetAt(h5, a2.slice, idx, value)
         IN  [heap |-> h6, sum |-> Summary(a1.slice, a2.slice), err |-> FALSE]

\* sumUntilIndex(s, idx): the first loop takes four elements a turn, from
\* idx-1 downwards; the second takes what is left.
RECURSIVE SumRest(_, _, _)
SumRest(cs, i, cumSum) ==
    IF i >= 0 THEN SumRest(cs, i - 1, U64(cumSum + cs[i + 1])) ELSE cumSum

RECURSIVE SumByFour(_, _, _)
SumByFour(cs, i, cumSum) ==
    IF i >= 3
    THEN SumByFour(cs, i - 4,
             U64(U64(U64(U64(cumSum + cs[i + 1]) + cs[i]) + cs[i - 1]) + cs[i - 2]))
    ELSE SumRest(cs, i, cumSum)

\* sumUntilIndex whose second loop stops at i > 0.
RECURSIVE SumRestSkipsFirst(_, _, _)
SumRestSkipsFirst(cs, i, cumSum) ==
    IF i > 0 THEN SumRestSkipsFirst(cs, i - 1, U64(cumSum + cs[i + 1])) ELSE cumSum

RECURSIVE SumByFourSkipsFirst(_, _, _)
SumByFourSkipsFirst(cs, i, cumSum) ==
    IF i >= 3
    THEN SumByFourSkipsFirst(cs, i - 4,
             U64(U64(U64(U64(cumSum + cs[i + 1]) + cs[i]) + cs[i - 1]) + cs[i - 2]))
    ELSE SumRestSkipsFirst(cs, i, cumSum)

sumUntilIndexSkipsFirst(cs, idx) == SumByFourSkipsFirst(cs, idx - 1, 0)

\* sumUntilIndex whose first loop takes s[i-2] twice and never s[i-3].
RECURSIVE SumByFourSlip(_, _, _)
SumByFourSlip(cs, i, cumSum) ==
    IF i >= 3
    THEN SumByFourSlip(cs, i - 4,
             U64(U64(U64(U64(cumSum + cs[i + 1]) + cs[i]) + cs[i - 1]) + cs[i - 1]))
    ELSE SumRest(cs, i, cumSum)

sumUntilIndexSlip(cs, idx) == SumByFourSlip(cs, idx - 1, 0)

sumUntilIndex(cs, idx) == SumByFour(cs, idx - 1, 0)

\* HeadSum(idx)
HeadSum(h, sm, idx) == F64(sumUntilIndex(Counts(h, sm), idx))

\* GetTotalCount()
RECURSIVE TotalFrom(_, _, _)
TotalFrom(cs, i, totalCount) ==
    IF i > Len(cs) THEN totalCount
    ELSE TotalFrom(cs, i + 1, U64(totalCount + cs[i]))

\* GetTotalCount that leaves out the first count.
GetTotalCountSkipsFirst(h, sm) == TotalFrom(Counts(h, sm), 2, 0)

GetTotalCount(h, sm) == TotalFrom(Counts(h, sm), 1, 0)

\* FloorSum(sum): the loop, then the correction of cumSum.
RECURSIVE FloorSumLoop(_, _, _, _, _)
FloorSumLoop(cs, i, index, cumSum, sum) ==
    IF i >= Len(cs) THEN [index |-> index, cumSum |-> cumSum]
    ELSE IF FLe(cumSum, sum)
    THEN FloorSumLoop(cs, i + 1, i, FAdd(cumSum, F64(cs[i + 1])), sum)
    ELSE [index |-> index, cumSum |-> cumSum]

\* FloorSum comparing cumSum < sum.
RECURSIVE FloorSumLoopStrict(_, _, _, _, _)
FloorSumLoopStrict(cs, i, index, cumSum, sum) ==
    IF i >= Len(cs) THEN [index |-> index, cumSum |-> cumSum]
    ELSE IF FLt(cumSum, sum)
    THEN FloorSumLoopStrict(cs, i + 1, i, FAdd(cumSum, F64(cs[i + 1])), sum)
    ELSE [index |-> index, cumSum |-> cumSum]

FloorSumStrict(h, sm, sum) ==
    LET cs == Counts(h, sm)
        r == FloorSumLoopStrict(cs, 0, 0 - 1, 0, sum)
    IN  IF r.index # 0 - 1
        THEN [index |-> r.index, cumSum |-> FSub(r.cumSum, F64(cs[r.index + 1]))]
        ELSE r

FloorSum(h, sm, sum) ==
    LET cs == Counts(h, sm)
        r == FloorSumLoop(cs, 0, 0 - 1, 0, sum)
    IN  IF r.index # 0 - 1
        THEN [index |-> r.index, cumSum |-> FSub(r.cumSum, F64(cs[r.index + 1]))]
        ELSE r

\* Swap that exchanges the means and leaves the counts where they are.
SwapMeansOnly(h, sm, i, j) ==
    SetAt(SetAt(h, sm.means, i, At(h, sm.means, j)), sm.means, j, At(h, sm.means, i))

\* Swap(means, counts, i, j)
Swap(h, sm, i, j) ==
    LET h1 == SetAt(SetAt(h, sm.means, i, At(h, sm.means, j)),
                    sm.means, j, At(h, sm.means, i))
    IN  SetAt(SetAt(h1, sm.counts, i, At(h, sm.counts, j)),
              sm.counts, j, At(h, sm.counts, i))

\* adjustRight: for i := index + 1; i < len && means[i-1] > means[i]; i++
RECURSIVE adjustRightFrom(_, _, _)
adjustRightFrom(h, sm, i) ==
    IF i < SLen(sm) /\ FGt(At(h, sm.means, i - 1), At(h, sm.means, i))
    THEN adjustRightFrom(Swap(h, sm, i - 1, i), sm, i + 1)
    ELSE h

adjustRight(h, sm, index) == adjustRightFrom(h, sm, index + 1)

\* adjustLeft whose loop moves the means without their counts.
RECURSIVE adjustLeftMeansOnly(_, _, _)
adjustLeftMeansOnly(h, sm, i) ==
    IF i >= 0 /\ FGt(At(h, sm.means, i), At(h, sm.means, i + 1))
    THEN adjustLeftMeansOnly(
             SetAt(SetAt(h, sm.means, i, At(h, sm.means, i + 1)),
                   sm.means, i + 1, At(h, sm.means, i)), sm, i - 1)
    ELSE h

\* adjustLeft: for i := index - 1; i >= 0 && means[i] > means[i+1]; i--
RECURSIVE adjustLeftFrom(_, _, _)
adjustLeftFrom(h, sm, i) ==
    IF i >= 0 /\ FGt(At(h, sm.means, i), At(h, sm.means, i + 1))
    THEN adjustLeftFrom(Swap(h, sm, i, i + 1), sm, i - 1)
    ELSE h

adjustLeft(h, sm, index) == adjustLeftFrom(h, sm, index - 1)

\* setAt that adjusts to the right only.
setAtNoLeft(h, sm, index, mean, count) ==
    LET h1 == SetAt(h, sm.means, index, mean)
        h2 == SetAt(h1, sm.counts, index, count)
    IN  adjustRight(h2, sm, index)

\* setAt(index, mean, count): the heap after the call.
setAt(h, sm, index, mean, count) ==
    LET h1 == SetAt(h, sm.means, index, mean)
        h2 == SetAt(h1, sm.counts, index, count)
    IN  adjustLeft(adjustRight(h2, sm, index), sm, index)

\* Reset that cuts the means and forgets the counts.
ResetMeansOnly(sm) == Summary(Slice(sm.means.arr, 0), sm.counts)

\* Reset(): both slices cut to length 0 over the same arrays.
ResetResult(sm) ==
    Summary(Slice(sm.means.arr, 0), Slice(sm.counts.arr, 0))

\* shuffle: for i := len(means) - 1; i > 1; i-- { Swap(i, rng.Intn(i+1)) }
\* rng[i] is what Intn(i+1) returns in the turn of i.
RECURSIVE shuffleFrom(_, _, _, _)
shuffleFrom(h, sm, i, rng) ==
    IF i > 1 THEN shuffleFrom(Swap(h, sm, i, rng[i]), sm, i - 1, rng) ELSE h

shuffle(h, sm, rng) == shuffleFrom(h, sm, SLen(sm) - 1, rng)

\* The outputs an rng may give a shuffle of n elements: Intn(k) is in [0, k).
RngRuns(n) == {r \in [2 .. (n - 1) -> 0 .. (n - 1)] : \A i \in 2 .. (n - 1) : r[i] <= i}

\* A visitor f: f[k] is what it returns to its k-th call (FALSE: stop).
\* ForEach: for i, mean := range s.means { if !f(mean, s.counts[i]) { break } }
\* The value is the sequence of the calls made, as pairs (mean, count).
RECURSIVE ForEachFrom(_, _, _, _, _)
ForEachFrom(ms, cs, i, f, visits) ==
    IF i >= Len(ms) THEN visits
    ELSE LET v == Append(visits, <<ms[i + 1], cs[i + 1]>>)
         IN  IF ~f[Len(v)] THEN v ELSE ForEachFrom(ms, cs, i + 1, f, v)

\* ForEach that goes on after the visitor has returned false.
RECURSIVE ForEachNoBreakFrom(_, _, _, _, _)
ForEachNoBreakFrom(ms, cs, i, f, visits) ==
    IF i >= Len(ms) THEN visits
    ELSE ForEachNoBreakFrom(ms, cs, i + 1, f, Append(visits, <<ms[i + 1], cs[i + 1]>>))

ForEachNoBreak(h, sm, f) == ForEachNoBreakFrom(Means(h, sm), Counts(h, sm), 0, f, <<>>)

ForEach(h, sm, f) == ForEachFrom(Means(h, sm), Counts(h, sm), 0, f, <<>>)

\* perm(rng, n): m := make([]int, n); for i := 1; i < n; i++ {
\*   j := rng.Intn(i + 1); m[i] = m[j]; m[j] = i }
\* rng[i] is what Intn(i+1) returns in the turn of i.
RECURSIVE permFrom(_, _, _, _)
permFrom(m, i, n, rng) ==
    IF i < n
    THEN LET j == rng[i]
             m1 == [m EXCEPT ![i + 1] = m[j + 1]]
         IN  permFrom([m1 EXCEPT ![j + 1] = i], i + 1, n, rng)
    ELSE m

\* perm without the line m[i] = m[j].
RECURSIVE permNoCarryFrom(_, _, _, _)
permNoCarryFrom(m, i, n, rng) ==
    IF i < n
    THEN permNoCarryFrom([m EXCEPT ![rng[i] + 1] = i], i + 1, n, rng)
    ELSE m

permNoCarry(rng, n) == permNoCarryFrom(Zeros(n), 1, n, rng)

perm(rng, n) == permFrom(Zeros(n), 1, n, rng)

\* The outputs an rng may give a perm of n: Intn(k) is in [0, k).
PermRuns(n) == {r \in [1 .. (n - 1) -> 0 .. (n - 1)] : \A i \in 1 .. (n - 1) : r[i] <= i}

\* Perm: for _, i := range perm(rng, s.Len()) {
\*   if !f(s.means[i], s.counts[i]) { break } }
RECURSIVE PermFrom(_, _, _, _, _, _)
PermFrom(ms, cs, order, k, f, visits) ==
    IF k > Len(order) THEN visits
    ELSE LET v == Append(visits, <<ms[order[k] + 1], cs[order[k] + 1]>>)
         IN  IF ~f[Len(v)] THEN v ELSE PermFrom(ms, cs, order, k + 1, f, v)

Perm(h, sm, rng, f) ==
    PermFrom(Means(h, sm), Counts(h, sm), perm(rng, SLen(sm)), 1, f, <<>>)

\* append(sl, elems...)
AppendAll(h, sl, elems) ==
    LET n == sl.len + Len(elems)
    IN  IF Len(elems) = 0 THEN [heap |-> h, slice |-> sl]
        ELSE IF n <= Cap(h, sl)
        THEN [heap |-> [h EXCEPT ![sl.arr] =
                          AsSeq([i \in 1 .. Len(@) |->
                                    IF i > sl.len /\ i <= n THEN elems[i - sl.len]
                                    ELSE @[i]], Len(@))],
              slice |-> Slice(sl.arr, n)]
        ELSE LET c == GrowCap(Cap(h, sl), n)
                 fresh == AsSeq([i \in 1 .. c |->
                                   IF i <= sl.len THEN ArrayOf(h, sl)[i]
                                   ELSE IF i <= n THEN elems[i - sl.len] ELSE 0], c)
             IN  [heap |-> Append(h, fresh), slice |-> Slice(Len(h) + 1, n)]

\* Clone that copies the slice headers only.
CloneShallow(h, sm) == [heap |-> h, sum |-> Summary(sm.means, sm.counts)]

\* Clone(): append([]float64{}, s.means...), append([]uint64{}, s.counts...)
Clone(h, sm) ==
    LET m == AppendAll(h, EmptySlice, Means(h, sm))
        c == AppendAll(m.heap, EmptySlice, Counts(m.heap, sm))
    IN  [heap |-> c.heap, sum |-> Summary(m.slice, c.slice)]

\* copy(dst, src) into a slice of another array: min(len) elements.
CopyInto(h, dst, elems) ==
    IF dst.arr = 0 THEN h
    ELSE [h EXCEPT ![dst.arr] =
            AsSeq([i \in 1 .. Len(@) |->
                      IF i <= dst.len /\ i <= Len(elems) THEN elems[i] ELSE @[i]],
                  Len(@))]

\* GetDataCopy(): the two slices it returns, held as a pair.
GetDataCopy(h, sm) ==
    LET m == Make(h, SLen(sm), SLen(sm))
        c == Make(m.heap, sm.counts.len, sm.counts.len)
        h1 == CopyInto(c.heap, m.slice, Means(h, sm))
        h2 == CopyInto(h1, c.slice, Counts(h, sm))
    IN  [heap |-> h2, sum |-> Summary(m.slice, c.slice)]

\* ------------------------------------------------------------ the machine

\* s: the summary; c: the summary Clone returned; d: the two slices
\* GetDataCopy returned.
Objs == {"s", "c", "d"}

Roots(o) ==
    <<o["s"].means.arr, o["s"].counts.arr, o["c"].means.arr, o["c"].counts.arr,
      o["d"].means.arr, o["d"].counts.arr>>

\* The arrays some slice still refers to, in the order of Roots.
RECURSIVE Reached(_, _, _)
Reached(rs, i, acc) ==
    IF i > Len(rs) THEN acc
    ELSE IF rs[i] = 0 \/ \E k \in 1 .. Len(acc) : acc[k] = rs[i]
    THEN Reached(rs, i + 1, acc)
    ELSE Reached(rs, i + 1, Append(acc, rs[i]))

\* Garbage collection: arrays no slice refers to are dropped, and the rest
\* are numbered in the order of Roots (an address is not observable).
Collect(h, o) ==
    LET keep == Reached(Roots(o), 1, <<>>)
        NewId(a) == IF a = 0 THEN 0 ELSE CHOOSE k \in 1 .. Len(keep) : keep[k] = a
        Move(sl) == Slice(NewId(sl.arr), sl.len)
    IN  IF Len(keep) = Len(h) /\ \A k \in 1 .. Len(keep) : keep[k] = k
        THEN [heap |-> h, objs |-> o]
        ELSE [heap |-> AsSeq([k \in 1 .. Len(keep) |-> h[keep[k]]], Len(keep)),
              objs |-> [x \in Objs |->
                          [live |-> o[x].live, means |-> Move(o[x].means),
                           counts |-> Move(o[x].counts)]]]

\* The step's new heap and objects.
Becomes(h, o) ==
    LET n == Collect(h, o)
    IN  heap' = n.heap /\ objs' = n.objs

InitCaps == {1}

Init ==
    \E initialCapacity \in InitCaps :
        LET n == newSummary(<<>>, initialCapacity)
        IN  /\ heap = n.heap
            /\ objs = [x \in Objs |-> IF x = "s" THEN n.sum ELSE NoSummary]
            /\ last = [op |-> "new", obj |-> "s"]

DoAdd(o, key, value) ==
    /\ objs[o].live
    /\ LET r == AddResult(heap, objs[o], key, value)
       IN  /\ Becomes(r.heap, [objs EXCEPT ![o] = r.sum])
           /\ last' = [op |-> "Add", obj |-> o, key |-> key, value |-> value,
                       err |-> r.err]

DoSetAt(o, index, mean, count) ==
    /\ objs[o].live
    /\ index >= 0 /\ index < SLen(objs[o])
    /\ Becomes(setAt(heap, objs[o], index, mean, count), objs)
    /\ last' = [op |-> "setAt", obj |-> o, index |-> index, mean |-> mean,
                count |-> count]

DoReset(o) ==
    /\ objs[o].live
    /\ Becomes(heap, [objs EXCEPT ![o] = ResetResult(objs[o])])
    /\ last' = [op |-> "Reset", obj |-> o]

DoShuffle(o) ==
    /\ objs[o].live
    /\ \E rng \in RngRuns(SLen(objs[o])) :
          /\ Becomes(shuffle(heap, objs[o], rng), objs)
          /\ last' = [op |-> "shuffle", obj |-> o]

DoClone ==
    LET r == Clone(heap, objs["s"])
    IN  /\ Becomes(r.heap, [objs EXCEPT !["c"] = r.sum])
        /\ last' = [op |-> "Clone", obj |-> "s"]

DoGetDataCopy ==
    LET r == GetDataCopy(heap, objs["s"])
    IN  /\ Becomes(r.heap, [objs EXCEPT !["d"] = r.sum])
        /\ last' = [op |-> "GetDataCopy", obj |-> "s"]

DoForEach(o, f) ==
    /\ objs[o].live
    /\ UNCHANGED <<heap, objs>>
    /\ last' = [op |-> "ForEach", obj |-> o, f |-> f,
                visits |-> ForEach(heap, objs[o], f)]

DoPerm(o, rng, f) ==
    /\ objs[o].live
    /\ UNCHANGED <<heap, objs>>
    /\ last' = [op |-> "Perm", obj |-> o, f |-> f, rng |-> rng,
                order |-> perm(rng, SLen(objs[o])),
                visits |-> Perm(heap, objs[o], rng, f)]

\* s.Reset(), and beside it a summary c fresh from newSummary: from here on
\* the two are given the same calls.
DoResetBesideFresh(initialCapacity) ==
    LET n == newSummary(heap, initialCapacity)
    IN  /\ Becomes(n.heap, [objs EXCEPT !["s"] = ResetResult(objs["s"]),
                                         !["c"] = n.sum])
        /\ last' = [op |-> "Reset", obj |-> "s"]

\* The same Add on s and on c.
DoAddBoth(key, value) ==
    /\ objs["c"].live
    /\ LET a == AddResult(heap, objs["s"], key, value)
           b == AddResult(a.heap, objs["c"], key, value)
       IN  /\ Becomes(b.heap, [objs EXCEPT !["s"] = a.sum, !["c"] = b.sum])
           /\ last' = [op |-> "Add", obj |-> "s", key |-> key, value |-> value,
                       err |-> a.err, errOfFresh |-> b.err]

\* The same setAt on s and on c.
DoSetAtBoth(index, mean, count) ==
    /\ objs["c"].live
    /\ index >= 0 /\ index < SLen(objs["s"]) /\ index < SLen(objs["c"])
    /\ Becomes(setAt(setAt(heap, objs["s"], index, mean, count),
                     objs["c"], index, mean, count), objs)
    /\ last' = [op |-> "setAt", obj |-> "s", index |-> index, mean |-> mean,
                count |-> count]

\* The caller writes into the slices GetDataCopy gave it.
DoWriteCopy(index, mean, count) ==
    /\ objs["d"].live
    /\ index >= 0 /\ index < objs["d"].means.len
    /\ LET h1 == SetAt(heap, objs["d"].means, index, mean)
       IN  Becomes(SetAt(h1, objs["d"].counts, index, count), objs)
    /\ last' = [op |-> "write", obj |-> "d", index |-> index, mean |-> mean,
                count |-> count]

DoLen(o) ==
    /\ objs[o].live
    /\ UNCHANGED <<heap, objs>>
    /\ last' = [op |-> "Len", obj |-> o, ret |-> SLen(objs[o])]

DoFloor(o, x) ==
    /\ objs[o].live
    /\ UNCHANGED <<heap, objs>>
    /\ last' = [op |-> "Floor", obj |-> o, x |-> x, ret |-> Floor(heap, objs[o], x)]

DoHeadSum(o, idx) ==
    /\ objs[o].live
    /\ idx <= objs[o].counts.len
    /\ UNCHANGED <<heap, objs>>
    /\ last' = [op |-> "HeadSum", obj |-> o, idx |-> idx,
                ret |-> HeadSum(heap, objs[o], idx)]

DoGetTotalCount(o) ==
    /\ objs[o].live
    /\ UNCHANGED <<heap, objs>>
    /\ last' = [op |-> "GetTotalCount", obj |-> o,
                ret |-> GetTotalCount(heap, objs[o])]

DoFloorSum(o, sum) ==
    /\ objs[o].live
    /\ UNCHANGED <<heap, objs>>
    /\ LET r == FloorSum(heap, objs[o], sum)
       IN  last' = [op |-> "FloorSum", obj |-> o, sum |-> sum,
                    index |-> r.index, cumSum |-> r.cumSum]

\* A model bound, not the program's: an Add that would store is not taken
\* on a summary of `bound` centroids.
Fits(o, key, value, bound) == IsNaN(key) \/ value = 0 \/ SLen(objs[o]) < bound

Queries(o) ==
    \/ DoLen(o)
    \/ \E x \in FloorInputs : DoFloor(o, x)
    \/ \E idx \in (0 - 1) .. MaxLen : DoHeadSum(o, idx)
    \/ DoGetTotalCount(o)
    \/ \E sum \in SumInputs : DoFloorSum(o, sum)

\* A summary that only ever sees Add, and the queries.
Next ==
    \/ \E key \in KeyInputs, value \in ValueInputs :
          Fits("s", key, value, MaxLen) /\ DoAdd("s", key, value)
    \/ Queries("s")

Spec == Init /\ [][Next]_vars

\* The centroids that the specifications of the mutators store, and the Adds
\* that are refused.
AliasPairs == {<<3, 1>>, <<5, 2>>}

RefusedAdds == {<<NaN, 1>>, <<NaN, 0>>, <<3, 0>>, <<5, 0>>}

Mutators(o) ==
    \/ \E kv \in AliasPairs :
          Fits(o, kv[1], kv[2], AliasLen) /\ DoAdd(o, kv[1], kv[2])
    \/ \E index \in 0 .. (AliasLen - 1), kv \in AliasPairs :
          DoSetAt(o, index, kv[1], kv[2])
    \/ DoReset(o)
    \/ DoShuffle(o)

\* A summary changed by every mutator, and the Adds it refuses.
NextMut ==
    \/ Mutators("s")
    \/ \E kv \in RefusedAdds : DoAdd("s", kv[1], kv[2])

SpecMut == Init /\ [][NextMut]_vars

\* A summary and either its clone or its data copy, each changed on its own.
\* (A model bound: a run takes clones or data copies, not both.)
NextAlias ==
    \/ Mutators("s")
    \/ Mutators("c")
    \/ ~objs["d"].live /\ DoClone
    \/ ~objs["c"].live /\ DoGetDataCopy
    \/ \E index \in 0 .. (AliasLen - 1), kv \in AliasPairs :
          DoWriteCopy(index, kv[1], kv[2])

SpecAlias == Init /\ [][NextAlias]_vars

\* The centroids Add stores and the centroids setAt writes in the
\* specification of setAt: means below, between and above the stored ones, a
\* NaN mean, and a count of 0.
SetAdds == {<<3, 1>>, <<5, 2>>}

SetWrites == {<<2, 1>>, <<4, 0>>, <<6, 2>>, <<NaN, 1>>}

\* A summary under Add and setAt at any valid index.
NextSet ==
    \/ \E kv \in SetAdds : Fits("s", kv[1], kv[2], SetLen) /\ DoAdd("s", kv[1], kv[2])
    \/ \E index \in 0 .. (SetLen - 1), kv \in SetWrites :
          DoSetAt("s", index, kv[1], kv[2])

SpecSet == Init /\ [][NextSet]_vars

\* The centroids of the specification of ForEach and Perm, and its visitors:
\* every sequence of answers to the calls a visit may make.
VisitAdds == {<<3, 1>>, <<4, 2>>, <<5, 1>>}

Visitors == [1 .. VisitLen -> BOOLEAN]

\* A summary built by Add and visited by ForEach and Perm.
NextVisit ==
    \/ \E kv \in VisitAdds : Fits("s", kv[1], kv[2], VisitLen) /\ DoAdd("s", kv[1], kv[2])
    \/ \E f \in Visitors : DoForEach("s", f)
    \/ \E f \in Visitors : \E rng \in PermRuns(SLen(objs["s"])) : DoPerm("s", rng, f)

SpecVisit == Init /\ [][NextVisit]_vars

\* The centroids stored before a Reset, the centroids stored after it, and the
\* capacities of the fresh summary beside it.
OldAdds == {<<4, BigCount>>}

NewAdds == {<<3, 1>>, <<5, 2>>}

FreshCaps == {0, 2}

\* A summary that is filled, Reset and used again, with a fresh summary
\* that is given the same calls after the Reset.
NextReset ==
    \/ \E kv \in OldAdds :
          /\ ~objs["c"].live
          /\ Fits("s", kv[1], kv[2], ResetLen) /\ DoAdd("s", kv[1], kv[2])
    \/ \E initialCapacity \in FreshCaps : DoResetBesideFresh(initialCapacity)
    \/ \E kv \in NewAdds \cup {<<NaN, 1>>} :
          Fits("s", kv[1], kv[2], ResetLen) /\ DoAddBoth(kv[1], kv[2])
    \/ \E index \in 0 .. (ResetLen - 1), kv \in NewAdds :
          DoSetAtBoth(index, kv[1], kv[2])

SpecReset == Init /\ [][NextReset]_vars

\* The centroids of the specification of the sums: one mean, so that every
\* sequence of the counts is stored.
SumAdds == {<<3, 1>>, <<3, BigCount>>}

\* A summary long enough for two turns of the unrolled loop of sumUntilIndex.
NextSum ==
    \/ \E kv \in SumAdds : Fits("s", kv[1], kv[2], SumLen) /\ DoAdd("s", kv[1], kv[2])
    \/ \E idx \in 0 .. SumLen : DoHeadSum("s", idx)
    \/ DoGetTotalCount("s")

SpecSum == Init /\ [][NextSum]_vars

\* The centroids and the targets of the specification of the searches: every
\* sorted sequence of the three means, and targets below, at, between and
\* above them, and NaN.
SearchAdds == {<<3, 1>>, <<4, 1>>, <<5, 1>>}

SearchInputs == FloorInputs \cup {2}

\* A summary long enough for a binary search of several turns.
NextSearch ==
    \/ \E kv \in SearchAdds :
          Fits("s", kv[1], kv[2], SearchLen) /\ DoAdd("s", kv[1], kv[2])
    \/ \E x \in SearchInputs : DoFloor("s", x)

SpecSearch == Init /\ [][NextSearch]_vars

\* ------------------------------------------------------------------ claims

\* The summary, and the means and counts it shows.
S == objs["s"]

SM == Means(heap, S)

SC == Counts(heap, S)

\* The sequence with v put in at position p (counted from 0).
InsertAt(seq, p, v) == SubSeq(seq, 1, p) \o <<v>> \o SubSeq(seq, p + 1, Len(seq))

\* The first index (from 0) whose mean is strictly greater than m, or the length.
FirstGreater(ms, m) ==
    IF \E i \in 1 .. Len(ms) : ms[i] > m
    THEN (CHOOSE i \in 1 .. Len(ms) :
             ms[i] > m /\ \A j \in 1 .. (i - 1) : ~(ms[j] > m)) - 1
    ELSE Len(ms)

\* The last index (from 0) whose mean is strictly less than x, or -1.
LastBelow(ms, x) ==
    IF \E i \in 1 .. Len(ms) : FLt(ms[i], x)
    THEN (CHOOSE i \in 1 .. Len(ms) :
             FLt(ms[i], x) /\ \A j \in (i + 1) .. Len(ms) : ~FLt(ms[j], x)) - 1
    ELSE 0 - 1

\* The sum of the first n counts, as a number (no width).
RECURSIVE ExactSum(_, _)
ExactSum(cs, n) == IF n <= 0 THEN 0 ELSE ExactSum(cs, n - 1) + cs[n]

\* A step that was a successful Add.
AddedStep == last'.op = "Add" /\ ~last'.err

\* C1: from an empty summary, after every call of any sequence of valid Adds
\* the means are non-decreasing: Mean(i) <= Mean(i+1) for 0 <= i < Len()-1.
C1_SortedAfterAdd == \A i \in 1 .. (Len(SM) - 1) : FLe(SM[i], SM[i + 1])

\* An Add has put a mean between a smaller and a greater one.
C1_Witness ==
    /\ last.op = "Add" /\ ~last.err
    /\ Len(SM) = 3 /\ FLt(SM[1], SM[2]) /\ FLt(SM[2], SM[3])
    /\ last.key = SM[2]

\* C2: in any reachable state an Add with a NaN mean, and an Add with a count
\* of 0, returns an error and leaves the summary as it was: the same Len(),
\* the same means and counts (and nothing else of the storage changes).
C2_RejectedAddChangesNothing ==
    [][(last'.op = "Add" /\ (IsNaN(last'.key) \/ last'.value = 0)) =>
          /\ last'.err
          /\ SLen(objs'[last'.obj]) = SLen(objs[last'.obj])
          /\ Means(heap', objs'[last'.obj]) = Means(heap, objs[last'.obj])
          /\ Counts(heap', objs'[last'.obj]) = Counts(heap, objs[last'.obj])
          /\ UNCHANGED <<heap, objs>>]_vars

\* An Add of a count of 0 was refused on a summary of two or more centroids.
C2_Witness ==
    /\ last.op = "Add" /\ last.err
    /\ last.value = 0 /\ ~IsNaN(last.key)
    /\ SLen(objs[last.obj]) >= 2

\* C3 (amended): Add(m, c) with m not NaN and c > 0 returns no error; after it
\* Len() is one greater and GetTotalCount() is the old total plus c in uint64
\* arithmetic, that is modulo 2^64.
C3_AddGrowsLenAndTotal ==
    [][(last'.op = "Add" /\ ~IsNaN(last'.key) /\ last'.value # 0) =>
          /\ ~last'.err
          /\ SLen(S') = SLen(S) + 1
          /\ GetTotalCount(heap', S') = U64(GetTotalCount(heap, S) + last'.value)]_vars

\* C3 as claimed: GetTotalCount() is exactly c greater than before the call.
C3_Original ==
    [][(last'.op = "Add" /\ ~IsNaN(last'.key) /\ last'.value # 0) =>
          /\ ~last'.err
          /\ SLen(S') = SLen(S) + 1
          /\ GetTotalCount(heap', S') = GetTotalCount(heap, S) + last'.value]_vars

\* An Add has taken the total past the width of a count.
C3_Witness ==
    /\ last.op = "Add" /\ ~last.err
    /\ SC = <<BigCount, BigCount>>
    /\ GetTotalCount(heap, S) = 0

\* From empty: Add(5, 1), Add(3, 2), Add(3, 1).
C4_Scenario ==
    LET n == newSummary(<<>>, 0)
        a == AddResult(n.heap, n.sum, 5, 1)
        b == AddResult(a.heap, a.sum, 3, 2)
        c == AddResult(b.heap, b.sum, 3, 1)
    IN  /\ ~a.err /\ ~b.err /\ ~c.err
        /\ Means(c.heap, c.sum) = <<3, 3, 5>>
        /\ Counts(c.heap, c.sum) = <<2, 1, 1>>

\* C4: a successful Add(m, c) on a sorted summary puts the centroid at p, the
\* first index whose mean is strictly greater than m (Len() if none), so after
\* every entry of mean m; the entries before p keep their index, those from p
\* on move up by one, each with its own count. From empty, Add(5,1), Add(3,2),
\* Add(3,1) gives means [3,3,5] with counts [2,1,1].
C4_AddInsertsRight ==
    [][/\ C4_Scenario
       /\ AddedStep =>
            LET p == FirstGreater(SM, last'.key)
            IN  /\ SM' = InsertAt(SM, p, last'.key)
                /\ SC' = InsertAt(SC, p, last'.value)
                /\ \A i \in 1 .. p : SM[i] <= last'.key]_vars

\* The scenario's last state: (3, 1) went in after (3, 2) and before (5, 1).
C4_Witness ==
    /\ last.op = "Add" /\ ~last.err /\ last.key = 3 /\ last.value = 1
    /\ SM = <<3, 3, 5>>
    /\ SC = <<2, 1, 1>>

\* C5 (amended): after a successful Add(m, c) that inserts at p, for every j
\* with p < j <= Len(), HeadSum(j) is the float64 of the uint64 sum of c and
\* the old counts now before j; HeadSum(p) is what it was (it leaves c out).
C5_HeadSumAfterAdd ==
    [][AddedStep =>
          LET p == FirstGreater(SM, last'.key)
          IN  /\ \A j \in (p + 1) .. SLen(S') :
                    HeadSum(heap', S', j) = F64(U64(ExactSum(SC, j - 1) + last'.value))
              /\ HeadSum(heap', S', p) = HeadSum(heap, S, p)]_vars

\* C5 as claimed: for every j with p <= j <= Len(), HeadSum(j) is the sum of
\* the old counts now before j, plus c.
C5_Original ==
    [][AddedStep =>
          LET p == FirstGreater(SM, last'.key)
          IN  \A j \in p .. SLen(S') :
                 HeadSum(heap', S', j) =
                    ExactSum(SC, IF j = p THEN p ELSE j - 1) + last'.value]_vars

\* An Add went in first of three, and the counts sum past the width of a count.
C5_Witness ==
    /\ last.op = "Add" /\ ~last.err
    /\ Len(SM) = 3 /\ last.key = SM[1] /\ FLt(SM[1], SM[2])
    /\ ExactSum(SC, 3) > UintMod

\* C6 (amended): on a summary built by valid Adds, for every x that is not NaN,
\* Floor(x) is the largest index i with Mean(i) < x, and -1 when no mean is
\* strictly less than x (the empty summary too); Floor(NaN) is Len() - 1.
C6_FloorIsLastBelow ==
    last.op = "Floor" =>
        last.ret = IF IsNaN(last.x) THEN SLen(S) - 1 ELSE LastBelow(SM, last.x)

\* C6 as claimed, for every x.
C6_Original == last.op = "Floor" => last.ret = LastBelow(SM, last.x)

\* Floor(4) = 1 on the means [3, 3, 5].
C6_Witness ==
    /\ last.op = "Floor" /\ last.x = 4 /\ last.ret = 1
    /\ SM = <<3, 3, 5>>

\* C7: for every sum >= 0 the pair FloorSum(sum) returns has
\* cumSum = HeadSum(index).
C7_CumSumIsHeadSum ==
    (last.op = "FloorSum" /\ FGe(last.sum, 0)) =>
        last.cumSum = HeadSum(heap, S, last.index)

\* C8: on a non-empty summary, for every sum >= 0, FloorSum(sum).index is the
\* largest i in [0, Len()) with the total count of the centroids at [0, i) <= sum.
C8_IndexIsLastWithinSum ==
    (last.op = "FloorSum" /\ FGe(last.sum, 0) /\ SLen(S) > 0) =>
        /\ last.index \in 0 .. (SLen(S) - 1)
        /\ ExactSum(SC, last.index) <= last.sum
        /\ \A i \in (last.index + 1) .. (SLen(S) - 1) : ExactSum(SC, i) > last.sum

\* C9 (amended): on the empty summary FloorSum(s) returns (-1, 0) for any s; on
\* a non-empty one it returns an index >= 0 for every s >= 0, and (-1, 0) for
\* a negative or NaN s.
C9_MinusOneWhenEmptyOrBelowZero ==
    last.op = "FloorSum" =>
        /\ SLen(S) = 0 => (last.index = 0 - 1 /\ last.cumSum = 0)
        /\ (SLen(S) > 0 /\ FGe(last.sum, 0)) => last.index >= 0
        /\ (SLen(S) > 0 /\ ~FGe(last.sum, 0)) =>
              (last.index = 0 - 1 /\ last.cumSum = 0)

\* C9 as claimed: index -1 only on the empty summary, whatever the target.
C9_Original ==
    last.op = "FloorSum" =>
        /\ SLen(S) = 0 => (last.index = 0 - 1 /\ last.cumSum = 0)
        /\ SLen(S) > 0 => last.index >= 0

\* FloorSum of a negative target on a summary that is not empty.
C9_Witness ==
    /\ last.op = "FloorSum" /\ last.sum = 0 - 1
    /\ SLen(S) = 2 /\ last.index = 0 - 1

\* What an object shows: its means and its counts.
View(o) == <<Means(heap, objs[o]), Counts(heap, objs[o])>>

\* No array is the storage of two objects.
NoSharedStorage ==
    \A x, y \in Objs :
        x # y =>
            /\ objs[x].means.arr = 0 \/ objs[x].means.arr # objs[y].means.arr
            /\ objs[x].counts.arr = 0 \/ objs[x].counts.arr # objs[y].counts.arr

\* C10: Clone() returns a summary of the same means and counts that shares no
\* storage with the original: Add, setAt, Reset and shuffle on the clone leave
\* the original as it was, and on the original leave the clone as it was; the
\* slices of GetDataCopy() hold the same content, writes into them never change
\* the summary, and changes of the summary never change them.
C10_CloneAndCopyAreIndependent ==
    /\ []NoSharedStorage
    /\ [][/\ last'.op \in {"Add", "setAt", "Reset", "shuffle", "write"} =>
                \A x \in Objs \ {last'.obj} : View(x)' = View(x)
          /\ last'.op = "Clone" =>
                (objs'["c"].live /\ View("c")' = View("s") /\ View("s")' = View("s"))
          /\ last'.op = "GetDataCopy" =>
                (objs'["d"].live /\ View("d")' = View("s") /\ View("s")' = View("s"))
       ]_vars

\* A setAt on the clone has made it differ from the original.
C10_Witness ==
    /\ objs["c"].live
    /\ last.op = "setAt" /\ last.obj = "c"
    /\ SLen(S) >= 2 /\ SLen(objs["c"]) = SLen(S)
    /\ View("c") # View("s")

\* The pairs (mean, count) a summary shows, first to last.
Pairs(ms, cs) == [i \in 1 .. Len(ms) |-> <<ms[i], cs[i]>>]

\* The means are in order: none is NaN and none is greater than the next.
Sorted(ms) ==
    /\ \A i \in 1 .. Len(ms) : ~IsNaN(ms[i])
    /\ \A i \in 1 .. (Len(ms) - 1) : ms[i] <= ms[i + 1]

\* The sequence without its element at position p (counted from 0).
RemoveAt(seq, p) == SubSeq(seq, 1, p) \o SubSeq(seq, p + 2, Len(seq))

\* C11: in every state reached through Add, setAt with a valid index, Reset
\* and Clone every stored count is strictly positive: Count(i) > 0 for
\* 0 <= i < Len().
C11_CountsPositive == \A i \in 1 .. Len(SC) : SC[i] > 0

\* C15: if the means are sorted before the call, they are sorted again after
\* setAt(index, newMean, newCount) with a valid index and a newMean that is
\* not NaN, however far newMean is from the old mean; and so is every state
\* of a run of valid Adds and such setAts.
C15_SetAtKeepsSorted ==
    [][/\ (last'.op = "setAt" /\ ~IsNaN(last'.mean) /\ Sorted(SM)) => Sorted(SM')
       /\ (AddedStep /\ Sorted(SM)) => Sorted(SM')]_vars

\* A setAt has carried a centroid from the last place to the first, and one
\* from the first place to the last.
C15_Witness ==
    /\ last.op = "setAt" /\ Len(SM) = 3 /\ Sorted(SM)
    /\ \/ last.index = 2 /\ last.mean = 2 /\ SM[1] = 2 /\ SM[2] > 2
       \/ last.index = 0 /\ last.mean = 6 /\ SM[3] = 6 /\ SM[2] < 6

\* What setAt(index, mean, count) makes of the pairs ps: the same pairs with
\* the one at index replaced, the others in the order they had.
IsReplacement(ps, qs, index, mean, count) ==
    /\ Len(qs) = Len(ps)
    /\ \E p \in 0 .. (Len(qs) - 1) :
          /\ qs[p + 1] = <<mean, count>>
          /\ RemoveAt(qs, p) = RemoveAt(ps, index)

\* C19 (amended): setAt(index, newMean, newCount) with a valid index, on a
\* summary whose means are sorted, leaves Len() as it was and leaves the pairs
\* (mean, count) as they were but for the pair at index, which is now
\* (newMean, newCount); each other centroid keeps its count, and the other
\* centroids keep their relative order.
C19_SetAtChangesOneCentroid ==
    [][(last'.op = "setAt" /\ Sorted(SM)) =>
          /\ SLen(S') = SLen(S)
          /\ IsReplacement(Pairs(SM, SC), Pairs(SM', SC'),
                           last'.index, last'.mean, last'.count)]_vars

\* C19 as claimed: the same of every summary, sorted or not.
C19_Original ==
    [][last'.op = "setAt" =>
          /\ SLen(S') = SLen(S)
          /\ IsReplacement(Pairs(SM, SC), Pairs(SM', SC'),
                           last'.index, last'.mean, last'.count)]_vars

\* A setAt on a sorted summary of three has moved its centroid two places.
C19_Witness ==
    /\ last.op = "setAt" /\ Len(SM) = 3 /\ Sorted(SM)
    /\ last.index = 0 /\ SM[3] = last.mean /\ SC[3] = last.count
    /\ SM[2] < SM[3]

\* The visitor never asks to stop.
NeverStops(f) == \A k \in DOMAIN f : f[k]

\* The visits end with the first call the visitor answered with false, and
\* with the last centroid otherwise.
StopsAtFirstFalse(f, visits, n) ==
    /\ Len(visits) <= n
    /\ \A k \in 1 .. (Len(visits) - 1) : f[k]
    /\ Len(visits) < n => (Len(visits) >= 1 /\ ~f[Len(visits)])

\* C12: ForEach and Perm make no call of the visitor after the first call it
\* answered with false; if it never does, ForEach visits the indices 0, 1, ...,
\* Len()-1 in that order, each once and with its own (mean, count).
C12_VisitsStopAtFalse ==
    /\ last.op \in {"ForEach", "Perm"} =>
          StopsAtFirstFalse(last.f, last.visits, SLen(S))
    /\ last.op = "ForEach" =>
          /\ last.visits = SubSeq(Pairs(SM, SC), 1, Len(last.visits))
          /\ NeverStops(last.f) => last.visits = Pairs(SM, SC)
    /\ last.op = "Perm" =>
          \A k \in 1 .. Len(last.visits) :
             last.visits[k] = <<SM[last.order[k] + 1], SC[last.order[k] + 1]>>

\* A ForEach over three centroids was stopped by the second call.
C12_Witness ==
    /\ last.op = "ForEach" /\ SLen(S) = 3
    /\ last.f[1] /\ ~last.f[2] /\ last.f[3]
    /\ Len(last.visits) = 2

\* order holds each of 0 .. n-1 once.
IsPermutation(order, n) ==
    /\ Len(order) = n
    /\ \A i \in 0 .. (n - 1) : Cardinality({k \in 1 .. n : order[k] = i}) = 1

\* C13: for every n >= 0 and every rng whose Intn(k) is in [0, k), perm(rng, n)
\* holds each index of [0, n) exactly once; so Perm with a visitor that never
\* stops visits every stored centroid exactly once, and Perm changes nothing
\* of the summary's storage.
C13_PermIsPermutation ==
    [][last'.op = "Perm" =>
          /\ IsPermutation(last'.order, SLen(S))
          /\ NeverStops(last'.f) =>
                /\ Len(last'.visits) = SLen(S)
                /\ \A i \in 1 .. SLen(S) :
                      Cardinality({k \in 1 .. SLen(S) :
                                      /\ last'.order[k] = i - 1
                                      /\ last'.visits[k] = <<SM[i], SC[i]>>}) = 1
          /\ UNCHANGED <<heap, objs>>]_vars

\* A Perm has visited three centroids last to first.
C13_Witness ==
    /\ last.op = "Perm" /\ SLen(S) = 3 /\ NeverStops(last.f)
    /\ last.order = <<2, 1, 0>>
    /\ SM[1] < SM[2] /\ SM[2] < SM[3]

\* The fresh summary beside s.
Fresh == objs["c"]

\* What the queries return on sm: Len, Floor, HeadSum, GetTotalCount, FloorSum
\* and ForEach, for each of their inputs.
Answers(sm) ==
    [len |-> SLen(sm),
     floor |-> [x \in FloorInputs |-> Floor(heap, sm, x)],
     headSum |-> [idx \in 0 .. sm.counts.len |-> HeadSum(heap, sm, idx)],
     total |-> GetTotalCount(heap, sm),
     floorSum |-> [sum \in SumInputs |-> FloorSum(heap, sm, sum)],
     forEach |-> ForEach(heap, sm, [k \in 1 .. ResetLen |-> TRUE])]

\* C14: after Reset() Len() = 0 and GetTotalCount() = 0, and whatever calls
\* follow, the summary shows the means and counts, and answers every query,
\* as a fresh empty summary given the same calls does; no centroid stored
\* before the Reset is seen again.
C14_ResetIsAsFresh ==
    /\ [](Fresh.live =>
            /\ Means(heap, S) = Means(heap, Fresh)
            /\ Counts(heap, S) = Counts(heap, Fresh)
            /\ Answers(S) = Answers(Fresh)
            /\ last.op = "Add" => last.err = last.errOfFresh
            /\ \A i \in 1 .. Len(SM) : <<SM[i], SC[i]>> \notin OldAdds)
    /\ [][last'.op = "Reset" =>
            (SLen(S') = 0 /\ GetTotalCount(heap', S') = 0)]_vars

\* A summary that held three centroids before its Reset holds two others now,
\* over the array of the three.
C14_Witness ==
    /\ Fresh.live /\ last.op = "Add" /\ SLen(S) = 2
    /\ Cap(heap, S.means) > ResetLen
    /\ \E i \in 3 .. Cap(heap, S.means) : <<heap[S.means.arr][i], heap[S.counts.arr][i]>> \in OldAdds

\* The plain loop: sum := 0; for i := 0; i < n; i++ { sum += cs[i] }, in uint64.
RECURSIVE PlainSum(_, _)
PlainSum(cs, n) == IF n <= 0 THEN 0 ELSE U64(PlainSum(cs, n - 1) + cs[n])

\* C16 (amended): for every idx in [0, Len()], whatever idx modulo 4,
\* HeadSum(idx) is the float64 of the plain prefix sum of Count(i) over
\* [0, idx) taken in uint64 (0 for idx = 0), and HeadSum(Len()) is the float64
\* of GetTotalCount().
C16_HeadSumIsPrefixSum ==
    /\ last.op = "HeadSum" => last.ret = F64(PlainSum(SC, last.idx))
    /\ \A idx \in 0 .. SLen(S) : HeadSum(heap, S, idx) = F64(PlainSum(SC, idx))
    /\ HeadSum(heap, S, SLen(S)) = F64(GetTotalCount(heap, S))

\* C16 as claimed: HeadSum(idx) is the sum of the counts before idx, and
\* HeadSum(Len()) is GetTotalCount().
C16_Original ==
    /\ last.op = "HeadSum" => last.ret = ExactSum(SC, last.idx)
    /\ HeadSum(heap, S, SLen(S)) = GetTotalCount(heap, S)

\* HeadSum(7) of eight centroids: one turn of four, then three one by one,
\* over counts of both sizes.
C16_Witness ==
    /\ last.op = "HeadSum" /\ last.idx = 7 /\ SLen(S) = 8
    /\ \E i, j \in 1 .. 7 : SC[i] = 1 /\ SC[j] = BigCount
    /\ last.ret # ExactSum(SC, 7)

\* C17: on a sorted summary and for any x the linear scan and the binary
\* search give the same index, in findInsertionIndex (first mean > x) and in
\* findIndex (first mean >= x): Add inserts where, and Floor returns what, the
\* other branch would have given.
C17_ScanAndSearchAgree ==
    /\ \A x \in SearchInputs :
          /\ ScanGreater(SM, 0, x) = SortSearch(SM, 0, SLen(S), x, TRUE)
          /\ ScanGreaterEq(SM, 0, x) = SortSearch(SM, 0, SLen(S), x, FALSE)
          /\ findInsertionIndex(heap, S, x) = SortSearch(SM, 0, SLen(S), x, TRUE)
          /\ findIndex(heap, S, x) = SortSearch(SM, 0, SLen(S), x, FALSE)
    /\ last.op = "Floor" =>
          last.ret = SortSearch(SM, 0, SLen(S), last.x, FALSE) - 1

\* Floor(4) over six means with 4 among them, twice, where the two searches
\* differ from each other: first mean >= 4 at 2, first mean > 4 at 4.
C17_Witness ==
    /\ last.op = "Floor" /\ last.x = 4 /\ last.ret = 1
    /\ SM = <<3, 3, 4, 4, 5, 5>>
    /\ SortSearch(SM, 0, 6, 4, TRUE) = 4

\* Every ordering of the pairs ps.
Orderings(ps) ==
    {[k \in 1 .. Len(ps) |-> ps[f[k]]] : f \in Permutations(1 .. Len(ps))}

\* The pairs of the summary after shuffle(rng).
Shuffled(rng) == Pairs(Means(shuffle(heap, S, rng), S), Counts(shuffle(heap, S, rng), S))

\* C18: shuffle(rng) is a Fisher-Yates shuffle: of a summary of n centroids
\* with pairwise distinct means, each of the n! orderings is what shuffle
\* leaves for some rng whose Intn(k) is in [0, k).
C18_ShuffleReachesEveryOrdering ==
    (\A i, j \in 1 .. Len(SM) : i # j => SM[i] # SM[j]) =>
        \A q \in Orderings(Pairs(SM, SC)) :
            \E rng \in RngRuns(SLen(S)) : \A k \in 1 .. SLen(S) : Shuffled(rng)[k] = q[k]

\* How often the pair p is among ps.
Occurrences(ps, p) == Cardinality({k \in 1 .. Len(ps) : ps[k] = p})

\* The same pairs, each as often, in whatever order.
SameBag(ps, qs) ==
    /\ Len(ps) = Len(qs)
    /\ \A k \in 1 .. Len(ps) : Occurrences(ps, ps[k]) = Occurrences(qs, ps[k])

\* C20: shuffle(rng), for any rng whose Intn(k) is in [0, k), only reorders:
\* Len() is what it was, the pairs (mean, count) are the same, each as often
\* as before (a mean keeps its count), and so GetTotalCount() is unchanged.
C20_ShuffleOnlyReorders ==
    [][last'.op = "shuffle" =>
          /\ SLen(objs'[last'.obj]) = SLen(objs[last'.obj])
          /\ SameBag(Pairs(Means(heap, objs[last'.obj]), Counts(heap, objs[last'.obj])),
                     Pairs(Means(heap', objs'[last'.obj]), Counts(heap', objs'[last'.obj])))
          /\ GetTotalCount(heap', objs'[last'.obj]) = GetTotalCount(heap, objs[last'.obj])
       ]_vars

\* A shuffle of three centroids has left a greater mean before a smaller one.
C20_Witness ==
    /\ last.op = "shuffle" /\ SLen(S) = 3
    /\ SM[1] > SM[3]
    /\ SC[1] # SC[3]

====
